---- MODULE Spec2Model ----
(***************************************************************************)
(* Model of components/sup/src/manager/service/mod.rs: the per-service     *)
(* lifecycle controller (struct Service) of the supervisor.                *)
(*                                                                         *)
(* The controller is driven by one tick loop, one call at a time.  The     *)
(* calls restart(), initialize() and reconfigure() are atomic with respect *)
(* to the controller's fields; write_butterfly_service_config() is modelled*)
(* system call by system call, because its claims are about the states of  *)
(* the file system in the middle of a call.                                *)
(***************************************************************************)
EXTENDS Integers, Sequences, FiniteSets, TLC

\* ---------------------------------------------------------------- bounds
\* longest run of consecutive restart() calls observing the same condition
MaxRun == 3
\* number of initialize() calls followed
MaxInitCalls == 3
\* longest configuration blob handed to write_butterfly_service_config
MaxLen == 2

\* ------------------------------------------------------------ value sets
Topologies == {"Standalone", "Leader", "Initializer"}

\* enum LastRestartDisplay
LastRestartDisplay ==
  {"None", "ElectionInProgress", "ElectionNoQuorum", "ElectionFinished"}

NoLeader == "no-leader"
Members == {"node-42"}

\* What census_list.get("<service>.<group>") yields: nothing (present =
\* FALSE), or the census of the group, of which restart() reads the three
\* election flags of me() and get_leader().  The flags are three separate
\* getters; they are enumerated independently.
NoCensus ==
  [present |-> FALSE, running |-> FALSE, noquorum |-> FALSE,
   finished |-> FALSE, leader |-> NoLeader]

CensusLists ==
  {NoCensus} \cup
  [present : {TRUE}, running : BOOLEAN, noquorum : BOOLEAN,
   finished : BOOLEAN, leader : {NoLeader} \cup Members]

\* bytes of a configuration blob, and the blobs themselves
Bytes == {1, 2}

RECURSIVE SeqsUpTo(_)
SeqsUpTo(n) ==
  IF n = 0 THEN {<<>>}
  ELSE LET shorter == SeqsUpTo(n - 1) IN
       shorter \cup {Append(s, b) : s \in {t \in shorter : Len(t) = n - 1}, b \in Bytes}

Configs == SeqsUpTo(MaxLen)

\* --------------------------------------------------------------- state
VARIABLES
  \* fields of struct Service
  service_group,         \* Service.service_group
  topology,              \* Service.topology
  needs_restart,         \* Service.needs_restart
  initialized,           \* Service.initialized
  last_restart_display,  \* Service.last_restart_display
  pid,                   \* Service.supervisor.pid
  \* the thread that drives the controller
  panicked,              \* an unwrap() on None has unwound the thread
  \* observations of the calls (what a test double would record)
  last,                  \* the last controller call and what it did
  run,                   \* the current run of restart() calls observing one condition
  changed_since_restart, \* a reconfigure() wrote a change after the last supervisor.restart()
  init_calls,            \* number of initialize() calls
  init_hook_runs,        \* number of package.initialize() invocations
  \* file system under the service path
  on_disk,               \* <svc_path>/gossip.toml
  new_file,              \* <svc_path>/gossip.toml.write
  \* write_butterfly_service_config: the call in progress, or else the
  \* last call
  wpc,                   \* its next system call, "idle" once it has returned
  wdone,                 \* there has been a call
  wconfig,               \* its argument
  wpre,                  \* the two files as they were when it started
  wsteps,                \* the system calls it has made so far
  wret,                  \* its result
  wfailed,               \* the system call that failed in it, or "none"
  wprev                  \* the call before it: its result, and whether its
                         \* argument was the same

svc_vars ==
  <<service_group, topology, needs_restart, initialized, last_restart_display,
    pid, panicked, last, run, changed_since_restart, init_calls, init_hook_runs>>

fs_vars ==
  <<on_disk, new_file, wpc, wdone, wconfig, wpre, wsteps, wret, wfailed, wprev>>

vars ==
  <<service_group, topology, needs_restart, initialized, last_restart_display,
    pid, panicked, last, run, changed_since_restart, init_calls, init_hook_runs,
    on_disk, new_file, wpc, wdone, wconfig, wpre, wsteps, wret, wfailed, wprev>>

\* ------------------------------------------------------------- restart()

\* election_arm with "finished" tested before "running" and "no quorum"
election_arm_finished_first(census) ==
  IF ~census.present THEN "absent"
  ELSE IF census.finished THEN "finished"
  ELSE IF census.running THEN "running"
  ELSE IF census.noquorum THEN "noquorum"
  ELSE "none"

\* election_arm with "no quorum" tested before "running"
election_arm_no_quorum_first(census) ==
  IF ~census.present THEN "absent"
  ELSE IF census.noquorum THEN "noquorum"
  ELSE IF census.running THEN "running"
  ELSE IF census.finished THEN "finished"
  ELSE "none"

\* The chain of tests of restart() under Leader | Initializer: which arm is
\* taken for a given lookup result.
election_arm(census) ==
  IF ~census.present THEN "absent"
  ELSE IF census.running THEN "running"
  ELSE IF census.noquorum THEN "noquorum"
  ELSE IF census.finished THEN "finished"
  ELSE "none"

\* Outcome of one arm: the new values of the two fields it may assign, the
\* number of supervisor.restart() invocations, the line it prints, and how
\* the call ends ("ok", "err": the try! returned the supervisor's error,
\* "panic": unwrap() of a missing leader).
Outcome(display, needs, issued, log, leader, ret) ==
  [display |-> display, needs |-> needs, issued |-> issued,
   log |-> log, leader |-> leader, ret |-> ret]

\* arm_skip resetting the display latch
arm_skip_resets(display, needs) ==
  Outcome("None", needs, 0, "none", NoLeader, "ok")

\* arm_skip clearing needs_restart
arm_skip_clears_flag(display, needs) ==
  Outcome(display, FALSE, 0, "none", NoLeader, "ok")

arm_skip(display, needs) ==
  Outcome(display, needs, 0, "none", NoLeader, "ok")

\* arm_running printing its line on every call
arm_running_always_logs(display, needs) ==
  Outcome("ElectionInProgress", needs, 0, "in_progress", NoLeader, "ok")

\* arm_running clearing needs_restart although it does not restart
arm_running_drops_flag(display, needs) ==
  IF display # "ElectionInProgress"
  THEN Outcome("ElectionInProgress", FALSE, 0, "in_progress", NoLeader, "ok")
  ELSE Outcome(display, FALSE, 0, "none", NoLeader, "ok")

arm_running(display, needs) ==
  IF display # "ElectionInProgress"
  THEN Outcome("ElectionInProgress", needs, 0, "in_progress", NoLeader, "ok")
  ELSE Outcome(display, needs, 0, "none", NoLeader, "ok")

arm_no_quorum(display, needs) ==
  IF display # "ElectionNoQuorum"
  THEN Outcome("ElectionNoQuorum", needs, 0, "no_quorum", NoLeader, "ok")
  ELSE Outcome(display, needs, 0, "none", NoLeader, "ok")

\* arm_finished with the restart inside the `if` that guards the log line
arm_finished_restart_once(census, display, needs, sup_ok) ==
  IF census.leader = NoLeader
  THEN Outcome(display, needs, 0, "none", NoLeader, "panic")
  ELSE IF display # "ElectionFinished"
       THEN Outcome("ElectionFinished", FALSE, 1, "restarting", census.leader,
                    IF sup_ok THEN "ok" ELSE "err")
       ELSE Outcome(display, needs, 0, "none", NoLeader, "ok")

\* arm_finished without `self.needs_restart = false`
arm_finished_keeps_flag(census, display, needs, sup_ok) ==
  IF census.leader = NoLeader
  THEN Outcome(display, needs, 0, "none", NoLeader, "panic")
  ELSE IF display # "ElectionFinished"
       THEN Outcome("ElectionFinished", needs, 1, "restarting", census.leader,
                    IF sup_ok THEN "ok" ELSE "err")
       ELSE Outcome(display, needs, 1, "none", NoLeader,
                    IF sup_ok THEN "ok" ELSE "err")

\* arm_finished with `if let Some(leader)` in place of unwrap()
arm_finished_skips_without_leader(census, display, needs, sup_ok) ==
  IF census.leader = NoLeader
  THEN Outcome(display, needs, 0, "none", NoLeader, "ok")
  ELSE IF display # "ElectionFinished"
       THEN Outcome("ElectionFinished", FALSE, 1, "restarting", census.leader,
                    IF sup_ok THEN "ok" ELSE "err")
       ELSE Outcome(display, FALSE, 1, "none", NoLeader,
                    IF sup_ok THEN "ok" ELSE "err")

arm_finished(census, display, needs, sup_ok) ==
  IF census.leader = NoLeader
  THEN Outcome(display, needs, 0, "none", NoLeader, "panic")
  ELSE IF display # "ElectionFinished"
       THEN Outcome("ElectionFinished", FALSE, 1, "restarting", census.leader,
                    IF sup_ok THEN "ok" ELSE "err")
       ELSE Outcome(display, FALSE, 1, "none", NoLeader,
                    IF sup_ok THEN "ok" ELSE "err")

\* arm_standalone restarting only when a restart is pending
arm_standalone_if_needed(display, needs, sup_ok) ==
  IF needs
  THEN Outcome(display, FALSE, 1, "none", NoLeader, IF sup_ok THEN "ok" ELSE "err")
  ELSE Outcome(display, needs, 0, "none", NoLeader, "ok")

\* arm_standalone without try!: the supervisor's error is dropped
arm_standalone_swallows_error(display, needs, sup_ok) ==
  Outcome(display, FALSE, 1, "none", NoLeader, "ok")

arm_standalone(display, needs, sup_ok) ==
  Outcome(display, FALSE, 1, "none", NoLeader, IF sup_ok THEN "ok" ELSE "err")

restart_outcome(topo, census, display, needs, sup_ok) ==
  IF topo = "Standalone" THEN arm_standalone(display, needs, sup_ok)
  ELSE LET arm == election_arm(census) IN
       CASE arm = "running"  -> arm_running(display, needs)
         [] arm = "noquorum" -> arm_no_quorum(display, needs)
         [] arm = "finished" -> arm_finished(census, display, needs, sup_ok)
         [] OTHER            -> arm_skip(display, needs)

\* The condition a restart() call observes.
observed(topo, census) ==
  IF topo = "Standalone" THEN "standalone" ELSE election_arm(census)

NoCall ==
  [op |-> "none", census |-> NoCensus, pre_display |-> "None",
   pre_needs |-> FALSE, pre_initialized |-> FALSE, issued |-> 0,
   log |-> "none", leader |-> NoLeader, ret |-> "ok", sup |-> "not_called",
   write |-> "none", hook |-> "not_run", later |-> FALSE]

\* what the caller's view of the fields was when a call started
Called(op) ==
  [NoCall EXCEPT !.op = op,
     !.pre_display = last_restart_display,
     !.pre_needs = needs_restart,
     !.pre_initialized = initialized]

\* Service.supervisor.pid after supervisor.restart(): a process is tracked
\* after a successful restart; a failed one may have stopped the old process
\* or not.
pid_after_restart(old_pid, issued, sup_ok) ==
  IF issued = 0 THEN {old_pid}
  ELSE IF sup_ok THEN {"some"} ELSE {old_pid, "none"}

\* a counter of the current run, followed up to MaxRun
Counted(n) == IF n > MaxRun THEN MaxRun ELSE n

restart(census_list, sup_ok) ==
  /\ ~panicked
  /\ wpc = "idle"
  /\ LET cond == observed(topology, census_list)
         r == restart_outcome(topology, census_list, last_restart_display,
                              needs_restart, sup_ok)
     IN /\ last_restart_display' = r.display
        /\ needs_restart' = r.needs
        /\ panicked' = (r.ret = "panic")
        /\ last' = [NoCall EXCEPT !.op = "restart", !.census = census_list,
                      !.pre_display = last_restart_display,
                      !.pre_needs = needs_restart,
                      !.pre_initialized = initialized,
                      !.issued = r.issued, !.log = r.log,
                      !.leader = r.leader, !.ret = r.ret,
                      !.sup = IF r.issued = 0 THEN "not_called"
                              ELSE IF sup_ok THEN "ok" ELSE "failed"]
        /\ pid' \in pid_after_restart(pid, r.issued, sup_ok)
        /\ run' = IF run.kind = cond
                  THEN [kind |-> cond, calls |-> Counted(run.calls + 1),
                        logs |-> Counted(run.logs + (IF r.log = "none" THEN 0 ELSE 1)),
                        restarts |-> Counted(run.restarts + r.issued)]
                  ELSE [kind |-> cond, calls |-> 1,
                        logs |-> IF r.log = "none" THEN 0 ELSE 1,
                        restarts |-> r.issued]
        /\ changed_since_restart' =
             IF r.issued > 0 THEN FALSE ELSE changed_since_restart
  /\ UNCHANGED <<service_group, topology, initialized, init_calls, init_hook_runs>>
  /\ UNCHANGED fs_vars

\* ---------------------------------------------------------- initialize()

\* Whether initialize() invokes package.initialize().
runs_init_hook(is_initialized) == ~is_initialized

\* initialized_after with the assignment in the Ok arm only
initialized_after_ok_only(is_initialized, hook_ok) == is_initialized \/ hook_ok

\* The value of Service.initialized when initialize() returns.
initialized_after(is_initialized, hook_ok) == TRUE

initialize(hook_ok) ==
  /\ ~panicked
  /\ wpc = "idle"
  /\ init_calls < MaxInitCalls
  /\ init_calls' = init_calls + 1
  /\ init_hook_runs' =
       init_hook_runs + (IF runs_init_hook(initialized) THEN 1 ELSE 0)
  /\ initialized' = initialized_after(initialized, hook_ok)
  /\ last' = [NoCall EXCEPT !.op = "initialize",
                !.pre_display = last_restart_display,
                !.pre_needs = needs_restart,
                !.pre_initialized = initialized,
                !.hook = IF ~runs_init_hook(initialized) THEN "not_run"
                         ELSE IF hook_ok THEN "ok" ELSE "failed"]
  /\ UNCHANGED <<service_group, topology, needs_restart, last_restart_display,
                 pid, panicked, run, changed_since_restart>>
  /\ UNCHANGED fs_vars

\* --------------------------------------------------------- reconfigure()

\* reconfigure_outcome with needs_restart set only after the hook succeeded
reconfigure_outcome_hook_first(needs, new_ok, write, hook_ok) ==
  IF ~new_ok
  THEN [needs |-> needs, write |-> "none", hook |-> "not_run", later |-> FALSE]
  ELSE CASE write = "changed" ->
              [needs |-> needs \/ hook_ok, write |-> write,
               hook |-> IF hook_ok THEN "ok" ELSE "failed", later |-> TRUE]
         [] write = "unchanged" ->
              [needs |-> needs, write |-> write, hook |-> "not_run", later |-> TRUE]
         [] OTHER ->
              [needs |-> needs, write |-> write, hook |-> "not_run", later |-> TRUE]

\* reconfigure_outcome with a `return` in the Err arm of the write
reconfigure_outcome_error_returns(needs, new_ok, write, hook_ok) ==
  IF ~new_ok
  THEN [needs |-> needs, write |-> "none", hook |-> "not_run", later |-> FALSE]
  ELSE CASE write = "changed" ->
              [needs |-> TRUE, write |-> write,
               hook |-> IF hook_ok THEN "ok" ELSE "failed", later |-> TRUE]
         [] write = "unchanged" ->
              [needs |-> needs, write |-> write, hook |-> "not_run", later |-> TRUE]
         [] OTHER ->
              [needs |-> needs, write |-> write, hook |-> "not_run", later |-> FALSE]

\* What reconfigure() does, given the results of its collaborators:
\* new_ok: ServiceConfig::new succeeded; write: the result of
\* service_config.write ("changed" = Ok(true), "unchanged" = Ok(false),
\* "error" = Err); hook_ok: package.reconfigure() succeeded.
\* needs: the new needs_restart; hook: the reconfigure hook's fate;
\* later: load_hooks, copy_run and compile_all were run.
reconfigure_outcome(needs, new_ok, write, hook_ok) ==
  IF ~new_ok
  THEN [needs |-> needs, write |-> "none", hook |-> "not_run", later |-> FALSE]
  ELSE CASE write = "changed" ->
              [needs |-> TRUE, write |-> write,
               hook |-> IF hook_ok THEN "ok" ELSE "failed", later |-> TRUE]
         [] write = "unchanged" ->
              [needs |-> needs, write |-> write, hook |-> "not_run", later |-> TRUE]
         [] OTHER ->
              [needs |-> needs, write |-> write, hook |-> "not_run", later |-> TRUE]

reconfigure(new_ok, write, hook_ok) ==
  /\ ~panicked
  /\ wpc = "idle"
  /\ LET r == reconfigure_outcome(needs_restart, new_ok, write, hook_ok) IN
       /\ needs_restart' = r.needs
       /\ changed_since_restart' =
            IF r.write = "changed" THEN TRUE ELSE changed_since_restart
       /\ last' = [NoCall EXCEPT !.op = "reconfigure",
                     !.pre_display = last_restart_display,
                     !.pre_needs = needs_restart,
                     !.pre_initialized = initialized,
                     !.write = r.write, !.hook = r.hook, !.later = r.later]
  /\ UNCHANGED <<service_group, topology, initialized, last_restart_display,
                 pid, panicked, run, init_calls, init_hook_runs>>
  /\ UNCHANGED fs_vars

\* ------------------------------------- calls that go to the supervisor

\* signals a caller may send
Signals == {15}

\* the fields no supervisor call or health check assigns
supervisor_call_frame ==
  UNCHANGED <<service_group, topology, needs_restart, initialized,
              last_restart_display, panicked, run, changed_since_restart,
              init_calls, init_hook_runs>>

\* start(): self.supervisor.start(), after which a process is tracked if
\* it succeeded
start(ok) ==
  /\ ~panicked
  /\ wpc = "idle"
  /\ pid' = IF ok THEN "some" ELSE pid
  /\ last' = [Called("start") EXCEPT !.ret = IF ok THEN "ok" ELSE "err"]
  /\ supervisor_call_frame
  /\ UNCHANGED fs_vars

\* down() that also forgets the pending restart
down_clears_flag(ok) ==
  /\ ~panicked
  /\ wpc = "idle"
  /\ pid' = IF ok THEN "none" ELSE pid
  /\ needs_restart' = FALSE
  /\ last' = [Called("down") EXCEPT !.ret = IF ok THEN "ok" ELSE "err"]
  /\ UNCHANGED <<service_group, topology, initialized, last_restart_display,
                 panicked, run, changed_since_restart, init_calls, init_hook_runs>>
  /\ UNCHANGED fs_vars

\* down(): self.supervisor.down(), after which no process is tracked if it
\* succeeded
down(ok) ==
  /\ ~panicked
  /\ wpc = "idle"
  /\ pid' = IF ok THEN "none" ELSE pid
  /\ last' = [Called("down") EXCEPT !.ret = IF ok THEN "ok" ELSE "err"]
  /\ supervisor_call_frame
  /\ UNCHANGED fs_vars

\* send_signal(signal): delivered only when a process is tracked; without
\* one it is Ok(())
send_signal(signal, ok) ==
  /\ ~panicked
  /\ wpc = "idle"
  /\ last' = [Called("send_signal") EXCEPT
                !.ret = IF pid = "some" /\ ~ok THEN "err" ELSE "ok"]
  /\ UNCHANGED pid
  /\ supervisor_call_frame
  /\ UNCHANGED fs_vars

\* is_down(): self.supervisor.pid.is_none()
is_down ==
  /\ ~panicked
  /\ wpc = "idle"
  /\ last' = [Called("is_down") EXCEPT
                !.ret = IF pid = "none" THEN "true" ELSE "false"]
  /\ UNCHANGED pid
  /\ supervisor_call_frame
  /\ UNCHANGED fs_vars

\* check_process(): self.supervisor.check_process(), which forgets a
\* process that has exited
check_process(exited) ==
  /\ ~panicked
  /\ wpc = "idle"
  /\ pid' = IF exited THEN "none" ELSE pid
  /\ last' = Called("check_process")
  /\ supervisor_call_frame
  /\ UNCHANGED fs_vars

\* health_check(): self.package.health_check(&self.supervisor)
health_check ==
  /\ ~panicked
  /\ wpc = "idle"
  /\ last' = Called("health_check")
  /\ UNCHANGED pid
  /\ supervisor_call_frame
  /\ UNCHANGED fs_vars

\* ---------------------------------------- write_butterfly_service_config()

\* A file: whether it exists, its bytes, its owner and its mode.  A file
\* made by File::create belongs to the supervisor's user and has the mode
\* the umask gives ("default"); rename moves the file with its owner and
\* mode.
NoFile == [exists |-> FALSE, content |-> <<>>, owner |-> "none", mode |-> "none"]

created_file == [exists |-> TRUE, content |-> <<>>, owner |-> "default", mode |-> "default"]

\* String::new(): the checksum used when gossip.toml cannot be hashed
EmptyChecksum == <<>>

\* hash::hash_string: a digest is a non-empty string and distinct blobs
\* have distinct digests
hash_string(config) == <<Len(config)>> \o config

\* hash_file that never manages to hash the file
hash_file_always_fails(file) == EmptyChecksum

\* hash::hash_file with the Err arm of the match: a missing file hashes to
\* the empty string
hash_file(file) ==
  IF file.exists THEN hash_string(file.content) ELSE EmptyChecksum

\* the test that decides whether anything is written
checksums_differ(config, file) == hash_string(config) # hash_file(file)

\* the two files as a call finds them
NoFiles == [on_disk |-> NoFile, new_file |-> NoFile]

\* what is remembered of the call before the last one
NoPrev == [done |-> FALSE, same |-> FALSE, ret |-> FALSE]

\* the call returns: ret is its result, failed the step that failed
wb_return(ret, failed) ==
  /\ wpc' = "idle"
  /\ wret' = ret
  /\ wfailed' = failed

\* Entry: both checksums are computed and compared; equal checksums return
\* false at once.
wb_call(config) ==
  /\ ~panicked
  /\ wpc = "idle"
  /\ wconfig' = config
  /\ wpre' = [on_disk |-> on_disk, new_file |-> new_file]
  /\ wsteps' = <<>>
  /\ wprev' = [done |-> wdone, same |-> wdone /\ config = wconfig, ret |-> wret]
  /\ wdone' = TRUE
  /\ IF checksums_differ(config, on_disk)
     THEN /\ wpc' = "create"
          /\ wret' = FALSE
          /\ wfailed' = "none"
     ELSE wb_return(FALSE, "none")
  /\ UNCHANGED <<on_disk, new_file>>
  /\ UNCHANGED svc_vars

\* File::create(&new_filename): creates or truncates gossip.toml.write
wb_create(ok) ==
  /\ wpc = "create"
  /\ wsteps' = Append(wsteps, "create")
  /\ IF ok
     THEN /\ new_file' = created_file
          /\ wpc' = "write"
          /\ UNCHANGED <<wret, wfailed>>
     ELSE /\ UNCHANGED new_file
          /\ wb_return(FALSE, "create")
  /\ UNCHANGED <<on_disk, wconfig, wpre, wdone, wprev>>
  /\ UNCHANGED svc_vars

\* wb_write without the `return false` of its error arm
wb_write_no_return(ok) ==
  /\ wpc = "write"
  /\ wsteps' = IF wsteps[Len(wsteps)] = "write" THEN wsteps
               ELSE Append(wsteps, "write")
  /\ IF new_file.content = wconfig
     THEN /\ ok
          /\ wpc' = "rename"
          /\ UNCHANGED <<new_file, wret, wfailed>>
     ELSE IF ok
          THEN /\ new_file' = [new_file EXCEPT !.content =
                      Append(new_file.content, wconfig[Len(new_file.content) + 1])]
               /\ UNCHANGED <<wpc, wret, wfailed>>
          ELSE /\ wpc' = "rename"
               /\ UNCHANGED <<new_file, wret, wfailed>>
  /\ UNCHANGED <<on_disk, wconfig, wpre, wdone, wprev>>
  /\ UNCHANGED svc_vars

\* new_file.write_all(config.as_bytes()): the loop of write() calls, each
\* of which puts the next byte into the file or fails; Ok when nothing is
\* left to write.
wb_write(ok) ==
  /\ wpc = "write"
  /\ wsteps' = IF wsteps[Len(wsteps)] = "write" THEN wsteps
               ELSE Append(wsteps, "write")
  /\ IF new_file.content = wconfig
     THEN /\ ok
          /\ wpc' = "rename"
          /\ UNCHANGED <<new_file, wret, wfailed>>
     ELSE IF ok
          THEN /\ new_file' = [new_file EXCEPT !.content =
                      Append(new_file.content, wconfig[Len(new_file.content) + 1])]
               /\ UNCHANGED <<wpc, wret, wfailed>>
          ELSE /\ UNCHANGED new_file
               /\ wb_return(FALSE, "write")
  /\ UNCHANGED <<on_disk, wconfig, wpre, wdone, wprev>>
  /\ UNCHANGED svc_vars

\* std::fs::rename(&new_filename, &on_disk_path)
wb_rename(ok) ==
  /\ wpc = "rename"
  /\ wsteps' = Append(wsteps, "rename")
  /\ IF ok
     THEN /\ on_disk' = new_file
          /\ new_file' = NoFile
          /\ wpc' = "chown"
          /\ UNCHANGED <<wret, wfailed>>
     ELSE /\ UNCHANGED <<on_disk, new_file>>
          /\ wb_return(FALSE, "rename")
  /\ UNCHANGED <<wconfig, wpre, wdone, wprev>>
  /\ UNCHANGED svc_vars

\* wb_chown without the `return false` of its error arm
wb_chown_no_return(ok) ==
  /\ wpc = "chown"
  /\ wsteps' = Append(wsteps, "chown")
  /\ on_disk' = IF ok THEN [on_disk EXCEPT !.owner = "svc"] ELSE on_disk
  /\ wpc' = "chmod"
  /\ UNCHANGED <<wret, wfailed>>
  /\ UNCHANGED <<new_file, wconfig, wpre, wdone, wprev>>
  /\ UNCHANGED svc_vars

\* set_owner(&on_disk_path, svc_user, svc_group)
wb_chown(ok) ==
  /\ wpc = "chown"
  /\ wsteps' = Append(wsteps, "chown")
  /\ IF ok
     THEN /\ on_disk' = [on_disk EXCEPT !.owner = "svc"]
          /\ wpc' = "chmod"
          /\ UNCHANGED <<wret, wfailed>>
     ELSE /\ UNCHANGED on_disk
          /\ wb_return(FALSE, "chown")
  /\ UNCHANGED <<new_file, wconfig, wpre, wdone, wprev>>
  /\ UNCHANGED svc_vars

\* set_permissions(&on_disk_path, 0o770), then the final `true`
wb_chmod(ok) ==
  /\ wpc = "chmod"
  /\ wsteps' = Append(wsteps, "chmod")
  /\ IF ok
     THEN /\ on_disk' = [on_disk EXCEPT !.mode = "0770"]
          /\ wb_return(TRUE, "none")
     ELSE /\ UNCHANGED on_disk
          /\ wb_return(FALSE, "chmod")
  /\ UNCHANGED <<new_file, wconfig, wpre, wdone, wprev>>
  /\ UNCHANGED svc_vars

\* -------------------------------------------------------- specifications

\* Service::new: the fields as the constructor sets them, for any topology;
\* no gossip.toml has been written yet.
Init ==
  /\ service_group = [service |-> "redis", group |-> "default"]
  /\ topology \in Topologies
  /\ pid = "none"
  /\ needs_restart = FALSE
  /\ initialized = FALSE
  /\ last_restart_display = "None"
  /\ panicked = FALSE
  /\ last = NoCall
  /\ run = [kind |-> "none_yet", calls |-> 0, logs |-> 0, restarts |-> 0]
  /\ changed_since_restart = FALSE
  /\ init_calls = 0
  /\ init_hook_runs = 0
  /\ on_disk = NoFile
  /\ new_file = NoFile
  /\ wpc = "idle"
  /\ wconfig = <<>>
  /\ wpre = NoFiles
  /\ wsteps = <<>>
  /\ wdone = FALSE
  /\ wret = FALSE
  /\ wfailed = "none"
  /\ wprev = NoPrev

\* the calls on the controller's fields
NextSvc ==
  \/ \E census_list \in CensusLists, sup_ok \in BOOLEAN :
       restart(census_list, sup_ok)
  \/ \E hook_ok \in BOOLEAN : initialize(hook_ok)
  \/ \E new_ok \in BOOLEAN, write \in {"changed", "unchanged", "error"},
        hook_ok \in BOOLEAN :
       reconfigure(new_ok, write, hook_ok)

\* the calls that only go to the supervisor or the package
NextSup ==
  \/ \E ok \in BOOLEAN : start(ok)
  \/ \E ok \in BOOLEAN : down(ok)
  \/ \E signal \in Signals, ok \in BOOLEAN : send_signal(signal, ok)
  \/ is_down
  \/ \E exited \in BOOLEAN : check_process(exited)
  \/ health_check

\* the persistence of the gossip configuration
NextCfg ==
  \/ \E config \in Configs : wb_call(config)
  \/ \E ok \in BOOLEAN : wb_create(ok)
  \/ \E ok \in BOOLEAN : wb_write(ok)
  \/ \E ok \in BOOLEAN : wb_rename(ok)
  \/ \E ok \in BOOLEAN : wb_chown(ok)
  \/ \E ok \in BOOLEAN : wb_chmod(ok)

SpecSvc == Init /\ [][NextSvc]_vars

SpecCfg == Init /\ [][NextCfg]_vars

\* the snapshot the election settles on: finished, with a leader
SettledCensus ==
  [present |-> TRUE, running |-> FALSE, noquorum |-> FALSE,
   finished |-> TRUE, leader |-> "node-42"]

\* a restart() call of the tick loop once the election has settled
restart_settled == \E sup_ok \in BOOLEAN : restart(SettledCensus, sup_ok)

\* The controller's calls under a tick loop that keeps calling restart()
\* and an election that ends: restart() with the settled snapshot is not
\* postponed for ever.
SpecLive == Init /\ [][NextSvc]_vars /\ WF_vars(restart_settled)

\* the blobs written while all the calls of the controller are interleaved
FrameConfigs == {<<1>>}

\* the snapshots given to restart() while all the calls are interleaved
FrameCensus ==
  {NoCensus, SettledCensus,
   [SettledCensus EXCEPT !.running = TRUE, !.finished = FALSE]}

\* every public call of Service, interleaved as one tick loop may
Next ==
  \/ \E census_list \in FrameCensus, sup_ok \in BOOLEAN :
       restart(census_list, sup_ok)
  \/ initialize(TRUE)
  \/ \E write \in {"changed", "unchanged"} : reconfigure(TRUE, write, TRUE)
  \/ NextSup
  \/ \E config \in FrameConfigs : wb_call(config)
  \/ \E ok \in BOOLEAN : wb_create(ok)
  \/ \E ok \in BOOLEAN : wb_write(ok)
  \/ \E ok \in BOOLEAN : wb_rename(ok)
  \/ \E ok \in BOOLEAN : wb_chown(ok)
  \/ \E ok \in BOOLEAN : wb_chmod(ok)

Spec == Init /\ [][Next]_vars

\* ------------------------------------------------------------ properties

\* the last call was restart() under Leader or Initializer and the lookup
\* found the group
LeaderRestart ==
  /\ last.op = "restart"
  /\ topology # "Standalone"
  /\ last.census.present

\* C1: under Leader or Initializer a restart() call invokes
\* supervisor.restart() only if the census it was given contains the group
\* and reports the election finished; none is invoked when the group is
\* absent, the election is running or there is no quorum, in a single call
\* and over a run of calls.
C1_RestartOnlyWhenFinished ==
  /\ (last.op = "restart" /\ topology # "Standalone" /\ last.issued > 0)
       => /\ last.census.present
          /\ last.census.finished
          /\ ~last.census.running
          /\ ~last.census.noquorum
  /\ (run.kind \in {"absent", "running", "noquorum", "none"}) => run.restarts = 0

C1_Witness ==
  /\ LeaderRestart
  /\ last.census.finished
  /\ last.issued = 1
  /\ run.restarts >= 1

\* C2 as stated: under Leader or Initializer every restart() call whose
\* census reports the election finished, with a known leader, invokes
\* supervisor.restart() exactly once.
C2_FinishedAlwaysRestarts ==
  (LeaderRestart /\ last.census.finished /\ last.census.leader # NoLeader)
    => last.issued = 1

\* C2 amended: when the census reports the election finished and neither
\* running nor without quorum, with a known leader, every restart() call
\* invokes supervisor.restart() exactly once whatever last_restart_display
\* was; the "is the leader" line naming the leader is printed exactly on the
\* calls that found last_restart_display different from ElectionFinished, so
\* that N consecutive such calls make N restarts and at most one line.
C2_FinishedRestartsEveryCall ==
  /\ (/\ LeaderRestart
      /\ last.census.finished
      /\ ~last.census.running
      /\ ~last.census.noquorum
      /\ last.census.leader # NoLeader)
       => /\ last.issued = 1
          /\ last_restart_display = "ElectionFinished"
          /\ (last.log = "restarting") <=> (last.pre_display # "ElectionFinished")
          /\ last.log \in {"restarting", "none"}
          /\ last.log = "restarting" => last.leader = last.census.leader
  /\ (run.kind = "finished" /\ ~panicked)
       => /\ run.restarts = run.calls
          /\ run.logs <= 1

C2_Witness ==
  /\ LeaderRestart
  /\ last.pre_display = "ElectionFinished"
  /\ last.issued = 1
  /\ run.kind = "finished"
  /\ run.calls >= 2
  /\ run.restarts = run.calls
  /\ run.logs = 1

\* C3: under Standalone every restart() call leaves needs_restart false and
\* invokes supervisor.restart() exactly once, whatever the census holds and
\* whatever the fields were; last_restart_display is neither read nor
\* written and no line is printed.
C3_StandaloneAlwaysRestarts ==
  /\ (last.op = "restart" /\ topology = "Standalone")
       => /\ needs_restart = FALSE
          /\ last.issued = 1
          /\ last.log = "none"
          /\ last_restart_display = last.pre_display
  /\ run.kind = "standalone" => run.restarts = run.calls

C3_Witness ==
  /\ last.op = "restart"
  /\ topology = "Standalone"
  /\ ~last.pre_needs
  /\ last.census.present
  /\ last.census.running
  /\ last.issued = 1
  /\ run.calls >= 2

\* C4: needs_restart is cleared exactly when supervisor.restart() is
\* invoked: a restart() call that invokes it leaves needs_restart false, a
\* restart() call that does not leaves it as it was, no other call takes it
\* from true to false, and needs_restart is true only if a reconfigure()
\* wrote a changed configuration after the last invocation.
C4_NeedsRestartClearedByRestart ==
  /\ last.op = "restart"
       => IF last.issued > 0
          THEN needs_restart = FALSE
          ELSE needs_restart = last.pre_needs
  /\ (last.op \in {"initialize", "reconfigure"} /\ last.pre_needs)
       => needs_restart
  /\ needs_restart => changed_since_restart

C4_Witness ==
  /\ last.op = "restart"
  /\ last.pre_needs
  /\ last.issued = 1
  /\ ~needs_restart
  /\ ~changed_since_restart

\* C5: under Leader or Initializer a run of consecutive restart() calls
\* whose census reports the election running prints the "election in
\* progress" line at most once, on a call that found last_restart_display
\* different from ElectionInProgress and never after the first call of the
\* run, leaves last_restart_display = ElectionInProgress and never invokes
\* supervisor.restart().
C5_RunningLogsOnce ==
  /\ (LeaderRestart /\ last.census.running)
       => /\ last.issued = 0
          /\ last_restart_display = "ElectionInProgress"
          /\ (last.log = "in_progress") <=> (last.pre_display # "ElectionInProgress")
          /\ last.log \in {"in_progress", "none"}
          /\ run.kind = "running"
          /\ run.calls > 1 => last.log = "none"
  /\ run.kind = "running"
       => /\ run.logs <= 1
          /\ run.restarts = 0
          /\ last_restart_display = "ElectionInProgress"

C5_Witness ==
  /\ LeaderRestart
  /\ last.census.running
  /\ run.kind = "running"
  /\ run.calls >= 2
  /\ run.logs = 1
  /\ run.restarts = 0

\* what a reader finds at a path: whether there is a file, and its bytes
content_at(file) == [exists |-> file.exists, content |-> file.content]

\* the last write_butterfly_service_config call has returned, and it was
\* given the same blob as the call before it
SecondOfTwo ==
  /\ wpc = "idle"
  /\ wdone
  /\ wprev.done
  /\ wprev.same

C7_OnDiskNeverPartial ==
  wdone =>
    /\ \/ content_at(on_disk) = content_at(wpre.on_disk)
       \/ content_at(on_disk) = [exists |-> TRUE, content |-> wconfig]
    /\ wpc \in {"create", "write", "rename"} => on_disk = wpre.on_disk
    /\ (wpc = "idle" /\ wfailed \in {"create", "write", "rename"})
         => on_disk = wpre.on_disk

C7_Witness ==
  /\ wpc = "idle"
  /\ wfailed = "rename"
  /\ new_file.exists
  /\ new_file.content = wconfig
  /\ Len(wconfig) = MaxLen
  /\ on_disk.exists
  /\ on_disk.content # wconfig
  /\ on_disk = wpre.on_disk

\* C8: package.initialize() is invoked at most once, and exactly once as
\* soon as initialize() has been called; initialized is false before the
\* first initialize() call and true after it, whether the hook succeeded or
\* failed, and since calls are only ever added it never returns to false.
C8_InitHookRunsOnce ==
  /\ init_hook_runs <= 1
  /\ init_calls >= 1 => (init_hook_runs = 1 /\ initialized)
  /\ init_calls = 0 => (init_hook_runs = 0 /\ ~initialized)
  /\ last.op = "initialize"
       => /\ initialized
          /\ (last.hook = "not_run") <=> last.pre_initialized
  /\ (last.op # "none" /\ last.pre_initialized) => initialized

C8_Witness ==
  /\ init_calls >= 2
  /\ init_hook_runs = 1
  /\ initialized
  /\ last.op = "initialize"
  /\ last.hook = "not_run"

\* C9: a reconfigure() whose service_config.write reports no change leaves
\* needs_restart as it was; one whose write reports a change returns with
\* needs_restart true, also when package.reconfigure() then fails; the hook
\* package.reconfigure() is invoked in the changed case and in no other.
C9_ReconfigureSetsNeedsRestart ==
  last.op = "reconfigure" =>
    /\ last.write = "unchanged" => needs_restart = last.pre_needs
    /\ last.write = "changed" => needs_restart
    /\ (last.hook # "not_run") <=> (last.write = "changed")

C9_Witness ==
  /\ last.op = "reconfigure"
  /\ last.write = "changed"
  /\ last.hook = "failed"
  /\ ~last.pre_needs
  /\ needs_restart

\* C10 as stated: under Leader or Initializer, when the census reports both
\* election running and no quorum, restart() invokes no supervisor.restart()
\* and, if last_restart_display was not ElectionNoQuorum, prints the
\* no-quorum line and sets last_restart_display = ElectionNoQuorum.
C10_RunningNoQuorumWarns ==
  (LeaderRestart /\ last.census.running /\ last.census.noquorum)
    => /\ last.issued = 0
       /\ last.pre_display # "ElectionNoQuorum"
            => (last.log = "no_quorum" /\ last_restart_display = "ElectionNoQuorum")

\* C10 amended: under Leader or Initializer, when the census reports both
\* election running and no quorum, restart() invokes no supervisor.restart()
\* and takes the running arm: if last_restart_display was not
\* ElectionInProgress it prints the "election in progress" line and sets
\* ElectionInProgress; the no-quorum line and ElectionNoQuorum come only
\* when the census reports no quorum and not running.
C10_RunningTakesPrecedence ==
  /\ (LeaderRestart /\ last.census.running /\ last.census.noquorum)
       => /\ last.issued = 0
          /\ last_restart_display = "ElectionInProgress"
          /\ last.log # "no_quorum"
          /\ last.pre_display # "ElectionInProgress" => last.log = "in_progress"
  /\ (LeaderRestart /\ ~last.census.running /\ last.census.noquorum)
       => /\ last.issued = 0
          /\ last_restart_display = "ElectionNoQuorum"
          /\ (last.log = "no_quorum") <=> (last.pre_display # "ElectionNoQuorum")

C10_Witness ==
  /\ LeaderRestart
  /\ last.census.running
  /\ last.census.noquorum
  /\ last.pre_display = "ElectionNoQuorum"
  /\ last.log = "in_progress"
  /\ last_restart_display = "ElectionInProgress"

\* the system calls of a write_butterfly_service_config call that gets
\* through, in the order of the code
AllSteps == <<"create", "write", "rename", "chown", "chmod">>

IsPrefix(s, t) == Len(s) <= Len(t) /\ s = SubSeq(t, 1, Len(s))

\* the last write_butterfly_service_config call has returned
Returned == wpc = "idle" /\ wdone

\* the call found gossip.toml holding something else than its blob
FoundDifferent ==
  content_at(wpre.on_disk) # [exists |-> TRUE, content |-> wconfig]

\* C11: when the checksums differ write_butterfly_service_config makes its
\* system calls in the order create and write gossip.toml.write, rename,
\* chown, chmod; the step that fails is the last one made and the call
\* returns false; it returns true exactly when the checksums differed and
\* all the steps were made and none failed, and then gossip.toml holds the
\* blob with the service's owner and mode 0770.
C11_StepsInOrder ==
  /\ IsPrefix(wsteps, AllSteps)
  /\ (Returned /\ FoundDifferent) => wsteps # <<>>
  /\ (Returned /\ wfailed # "none")
       => /\ wret = FALSE
          /\ wsteps # <<>>
          /\ wsteps[Len(wsteps)] = wfailed
  /\ Returned
       => (wret = TRUE <=>
             (FoundDifferent /\ wsteps = AllSteps /\ wfailed = "none"))
  /\ wret = TRUE
       => on_disk = [exists |-> TRUE, content |-> wconfig,
                     owner |-> "svc", mode |-> "0770"]

C11_Witness ==
  /\ Returned
  /\ wfailed = "chown"
  /\ wsteps = <<"create", "write", "rename", "chown">>
  /\ wret = FALSE
  /\ wprev.done
  /\ wprev.ret

\* C12: whenever a write_butterfly_service_config call has returned,
\* gossip.toml, if the controller has put it there, belongs to the
\* service's user and group and has mode 0770.
C12_OwnedAndRestricted ==
  (wpc = "idle" /\ on_disk.exists)
    => (on_disk.owner = "svc" /\ on_disk.mode = "0770")

\* C15: a write_butterfly_service_config call in which a step failed
\* returns false and leaves gossip.toml (bytes, owner, mode) and the
\* presence of gossip.toml.write as it found them.
C15_FailureLeavesNoTrace ==
  (Returned /\ wfailed # "none")
    => /\ wret = FALSE
       /\ on_disk = wpre.on_disk
       /\ new_file.exists = wpre.new_file.exists

\* the last call was restart() under Leader or Initializer and it returned
LeaderCall ==
  /\ last.op = "restart"
  /\ topology # "Standalone"
  /\ ~panicked

\* the value of last_restart_display that stands for an observed condition
DisplayOf(kind) ==
  CASE kind = "running"  -> "ElectionInProgress"
    [] kind = "noquorum" -> "ElectionNoQuorum"
    [] kind = "finished" -> "ElectionFinished"
    [] OTHER             -> "None"

\* C13 as stated: under Leader or Initializer a restart() call that observes
\* running, no quorum or finished after a call that observed another
\* condition prints the line of the new condition.
C13_LogsOnEveryChange ==
  (LeaderCall /\ run.calls = 1 /\ run.kind \in {"running", "noquorum", "finished"})
    => last.log # "none"

\* C13 amended: last_restart_display is not reset by a change of the
\* observed condition: a call that observes the group absent or no flag set
\* leaves it as it was and prints nothing, and a call that observes running,
\* no quorum or finished prints its line exactly when last_restart_display
\* differs from the value of that condition, which it then takes; so running,
\* absent, running prints on the first call only.
C13_LatchKeptAcrossOtherConditions ==
  /\ (LeaderCall /\ run.kind \in {"running", "noquorum", "finished"})
       => /\ (last.log # "none") <=> (last.pre_display # DisplayOf(run.kind))
          /\ last_restart_display = DisplayOf(run.kind)
  /\ (LeaderCall /\ run.kind \in {"absent", "none"})
       => /\ last.log = "none"
          /\ last_restart_display = last.pre_display

C13_Witness ==
  /\ LeaderCall
  /\ run.kind = "running"
  /\ run.calls = 1
  /\ last.pre_display = "ElectionInProgress"
  /\ last.log = "none"

\* C14 as stated: a reconfigure() whose service_config.write fails returns
\* there: needs_restart is as it was, package.reconfigure() is not invoked
\* and load_hooks, copy_run and compile_all are not run.
C14_WriteErrorReturns ==
  (last.op = "reconfigure" /\ last.write = "error")
    => /\ needs_restart = last.pre_needs
       /\ last.hook = "not_run"
       /\ ~last.later

\* C14 amended: a reconfigure() whose service_config.write fails logs and
\* goes on: needs_restart is as it was and package.reconfigure() is not
\* invoked, but load_hooks, copy_run and compile_all are run in that call;
\* only a failing ServiceConfig::new returns before them.
C14_WriteErrorContinues ==
  /\ (last.op = "reconfigure" /\ last.write = "error")
       => /\ needs_restart = last.pre_needs
          /\ last.hook = "not_run"
          /\ last.later
  /\ (last.op = "reconfigure" /\ last.write = "none")
       => /\ needs_restart = last.pre_needs
          /\ last.hook = "not_run"
          /\ ~last.later

C14_Witness ==
  /\ last.op = "reconfigure"
  /\ last.write = "error"
  /\ last.later
  /\ last.pre_needs
  /\ needs_restart

\* C16: under Leader or Initializer a restart() call whose census reports
\* the election finished, neither running nor without quorum, and has no
\* leader panics: it does not return, and it has invoked no
\* supervisor.restart(), printed nothing and left needs_restart and
\* last_restart_display as they were; no other call panics.
C16_MissingLeaderPanics ==
  /\ (/\ LeaderRestart
      /\ last.census.finished
      /\ ~last.census.running
      /\ ~last.census.noquorum
      /\ last.census.leader = NoLeader)
       => /\ last.ret = "panic"
          /\ panicked
          /\ last.issued = 0
          /\ last.log = "none"
          /\ needs_restart = last.pre_needs
          /\ last_restart_display = last.pre_display
  /\ panicked
       => /\ LeaderRestart
          /\ run.kind = "finished"
          /\ last.census.leader = NoLeader
          /\ last.ret = "panic"

C16_Witness ==
  /\ panicked
  /\ last.ret = "panic"
  /\ last.pre_needs
  /\ needs_restart
  /\ last.pre_display = "ElectionInProgress"
  /\ last_restart_display = "ElectionInProgress"

\* C17: under Leader or Initializer a restart() call whose census does not
\* contain the group returns Ok, invokes no supervisor.restart(), prints
\* nothing and leaves needs_restart, last_restart_display and initialized as
\* they were.
C17_AbsentGroupIsNoOp ==
  (last.op = "restart" /\ topology # "Standalone" /\ ~last.census.present)
    => /\ last.ret = "ok"
       /\ ~panicked
       /\ last.issued = 0
       /\ last.sup = "not_called"
       /\ last.log = "none"
       /\ needs_restart = last.pre_needs
       /\ last_restart_display = last.pre_display
       /\ initialized = last.pre_initialized
       /\ run.kind = "absent"
       /\ run.restarts = 0
       /\ run.logs = 0

C17_Witness ==
  /\ last.op = "restart"
  /\ topology = "Initializer"
  /\ ~last.census.present
  /\ needs_restart
  /\ initialized
  /\ last_restart_display = "ElectionNoQuorum"
  /\ run.calls >= 2

\* C18: a pending restart is kept and acted on.  Under a tick loop that
\* keeps calling restart() with an election that has settled on a leader
\* (any snapshot under Standalone), needs_restart = TRUE leads to a state
\* where a restart() call has invoked supervisor.restart() and
\* needs_restart is false, unless the thread has panicked on a finished
\* snapshot without leader; and every restart() call that found
\* needs_restart true and invoked no supervisor.restart() left it true.
C18_PendingRestartActedOn ==
  /\ needs_restart ~>
       \/ panicked
       \/ (~needs_restart /\ last.op = "restart" /\ last.issued = 1)
  /\ []((last.op = "restart" /\ last.pre_needs /\ last.issued = 0)
          => needs_restart)

C18_Witness ==
  /\ last.op = "restart"
  /\ topology = "Leader"
  /\ last.census.present
  /\ last.census.noquorum
  /\ last.pre_needs
  /\ last.issued = 0
  /\ needs_restart
  /\ changed_since_restart

\* C19: a restart() call that returns, returns an error exactly when it
\* invoked supervisor.restart() and that failed; the arms that invoke none
\* (group absent, running, no quorum, no flag set) return Ok; supervisor
\* .restart() is invoked at most once in a call; and when the error is
\* returned needs_restart is already false and, under Leader or Initializer,
\* last_restart_display is already ElectionFinished.
C19_ErrorOnlyFromSupervisor ==
  last.op = "restart" =>
    /\ (last.ret = "err") <=> (last.issued = 1 /\ last.sup = "failed")
    /\ (last.sup = "not_called") <=> (last.issued = 0)
    /\ last.issued \in {0, 1}
    /\ run.kind \in {"absent", "running", "noquorum", "none"}
         => (last.ret = "ok" /\ last.issued = 0)
    /\ last.ret = "err"
         => /\ ~needs_restart
            /\ topology # "Standalone" => last_restart_display = "ElectionFinished"

C19_Witness ==
  /\ last.op = "restart"
  /\ topology = "Leader"
  /\ last.ret = "err"
  /\ last.sup = "failed"
  /\ last.pre_needs
  /\ ~needs_restart
  /\ last.pre_display # "ElectionFinished"
  /\ last_restart_display = "ElectionFinished"

\* the call a step belongs to
Acting ==
  IF fs_vars' # fs_vars THEN "write_butterfly_service_config" ELSE last'.op

\* what one step may do to the latches
FrameStep ==
  /\ topology' = topology
  /\ service_group' = service_group
  /\ last_restart_display' # last_restart_display
       => /\ Acting = "restart"
          /\ topology # "Standalone"
          /\ last_restart_display' # "None"
  /\ initialized' # initialized => Acting = "initialize"
  /\ needs_restart' # needs_restart => Acting \in {"restart", "reconfigure"}

\* C20: each latch is written by its own call only: last_restart_display
\* changes only in restart() under Leader or Initializer, never back to
\* None, and is None for ever under Standalone; initialized changes only in
\* initialize(); needs_restart changes only in restart() and reconfigure();
\* start, down, send_signal, is_down, check_process, health_check and
\* write_butterfly_service_config change none of them; topology and
\* service_group never change.
C20_LatchesWrittenByTheirCalls ==
  /\ [][FrameStep]_vars
  /\ [](topology = "Standalone" => last_restart_display = "None")

C20_Witness ==
  /\ last.op = "down"
  /\ needs_restart
  /\ initialized
  /\ last_restart_display = "ElectionFinished"
  /\ wpc = "idle"
  /\ wdone
  /\ wret = TRUE

====
